---- MODULE Spec2Model ----
(***************************************************************************)
(* Caption placement and caption history of the photo tagger UI            *)
(* (src/src/ui/App.tsx).                                                   *)
(*                                                                         *)
(* Part 1: the caption state machine: the React state `captions`,          *)
(* `captionHistory`, `captionIndex`, the caption drag handlers, the        *)
(* Undo / Redo / Edit Caption buttons and the caption actions applied by   *)
(* handleChatSubmit.  Each handler runs to completion on the UI event      *)
(* loop, so a handler (with the state updaters it queues) is one step.     *)
(* A memoised callback reads the values of the render that created it:     *)
(* the model keeps, for each memoised callback, the cursor it captured.    *)
(*                                                                         *)
(* Part 2: measureAndPlaceCaption, the deterministic clamp.                *)
(*                                                                         *)
(* Part 3: sanitizeCaptionHtml, the caption markup filter.                 *)
(*                                                                         *)
(* Part 4: one set_caption action applied to a fresh caption state, with   *)
(* findBestCaptionPlacement (the grid search) and nudgeAwayFromDetail.     *)
(*                                                                         *)
(* Part 5: the image exports: the Save Edited handler, which draws the     *)
(* captions, and renderEditorStateToBlob.                                  *)
(*                                                                         *)
(* Part 6: the HEIC conversion chain of handleFileChange.                  *)
(*                                                                         *)
(* Units.  Normalised coordinates are per-mille integers (0.015 = 15).     *)
(* captionIndex is 0-based as in the source; TLA+ sequences are 1-based,   *)
(* so snapshot i of the history is captionHistory[i + 1].                  *)
(***************************************************************************)
EXTENDS Integers, Sequences, FiniteSets, TLC

VARIABLES
    captions,        \* useState<Caption[]>: the live caption array
    captionHistory,  \* useState<Caption[][]>: the snapshots
    captionIndex,    \* useState<number>: the undo/redo cursor (0-based)
    dragging,        \* captionDragRef.current?.dragging
    hcsIndex,        \* <<>> while chatInput is blank, else <<i>>: the captionIndex i
                     \* captured by the memoised handleChatSubmit
    reqIndex,        \* <<>> while no request is in flight (chatLoading false), else
                     \* <<i>>: the captionIndex i captured by the running call
    branchPhase,     \* progress of the run commit, Undo, commit since the last photo load
    pl,              \* the measureAndPlaceCaption call (part 2)
    san,             \* the sanitizeCaptionHtml call (part 3)
    sc,              \* the set_caption action being applied (part 4)
    ex,              \* the image export being run (part 5)
    hc,              \* the HEIC conversion of handleFileChange (part 6)
    photo,           \* the working image shown (objectUrl / selectedPhoto); 0: none
    reqPhoto         \* <<>> while no request is in flight, else <<p>>: the working
                     \* image p the running call was started for

vars == <<captions, captionHistory, captionIndex, dragging, hcsIndex, reqIndex,
          branchPhase, pl, san, sc, ex, hc, photo, reqPhoto>>

capVars == <<captions, captionHistory, captionIndex>>
chatVars == <<hcsIndex, reqIndex, reqPhoto>>

(***************************************************************************)
(* Bounds of the model.                                                    *)
(***************************************************************************)
MaxHist == 3      \* longest caption history explored
MaxActions == 2   \* most actions in one assistant response
SizeUnit == 10000 \* sizePct resolution: 1/10000 percent

Min(a, b) == IF a < b THEN a ELSE b
Max(a, b) == IF a > b THEN a ELSE b

(***************************************************************************)
(* Captions.  A caption carries text, x, y and sizePct; anchor, color,     *)
(* stroke and weight are handled exactly like sizePct, so they are not     *)
(* repeated.  text 0 is the empty string.  A position is a pair <<x, y>>.  *)
(***************************************************************************)
Texts == {1}
DefaultMargin == 10                 \* clampNormalized's default margin 0.01
Positions == {<<DefaultMargin, 1000 - DefaultMargin>>, <<500, 900>>}
SizePcts == {5 * SizeUnit}             \* sizePct is in 1/SizeUnit percent
Caption ==
    { [text |-> t, x |-> p[1], y |-> p[2], sizePct |-> s] :
        t \in Texts, p \in Positions, s \in SizePcts }

\* Inputs of the handlers.
PointerXYs == {<<0, 1000>>, <<500, 900>>}   \* (clientX - rect.left) / rect.width, ... / rect.height
ValueXYs == {<<0, 1000>>, <<500, 900>>}     \* value.x, value.y of an action
ValueDxys == {<<-490, 90>>}                 \* value.dx, value.dy of a move_caption action

\* Faulty variant: the value is passed through unclamped.
clampNormalizedOff(v, margin) == v
\* const clampNormalized = (v, margin = 0.01) => Math.max(margin, Math.min(1 - margin, v))
clampNormalized(v, margin) == Max(margin, Min(1000 - margin, v))

\* h.slice(0, k)
Slice(h, k) == SubSeq(h, 1, Min(k, Len(h)))

\* h[i] || []  (0-based i; an index outside the array reads undefined)
SnapshotAt(h, i) == IF i + 1 \in DOMAIN h THEN h[i + 1] ELSE <<>>

\* [...prev.slice(0, -1), c]
ReplaceLast(prev, c) == Append(SubSeq(prev, 1, Len(prev) - 1), c)

\* const base = h.slice(0, captionIndex + 1); const updated = [...base, next]
CommitHistory(h, ci, next) == Append(Slice(h, ci + 1), next)

\* Faulty variant: the cursor set one past the last index.
CommitIndexOffByOne(updated) == Len(updated)

\* setCaptionIndex(updated.length - 1)
CommitIndex(updated) == Len(updated) - 1

\* The caption overlay element exists: captions.map(c => c.text ? <div .../> : null)
CaptionShown == captions # <<>> /\ captions[Len(captions)].text # 0

(***************************************************************************)
(* Progress of the run "commit, Undo, commit" from a fresh history:        *)
(* 0 fresh, 1 after the first commit, 2 after the Undo, 3 after the second *)
(* commit, 4 any other run.                                                *)
(***************************************************************************)
AfterCommit(p) == IF p = 0 THEN 1 ELSE IF p = 2 THEN 3 ELSE 4
AfterUndo(p) == IF p = 1 THEN 2 ELSE 4
AfterOther(p) == 4

Init ==
    /\ captions = <<>>
    /\ captionHistory = << <<>> >>
    /\ captionIndex = 0
    /\ dragging = FALSE
    /\ hcsIndex = <<>>
    /\ reqIndex = <<>>
    /\ branchPhase = 0
    /\ photo = 0
    /\ reqPhoto = <<>>
    /\ ex = [pc |-> "off"]
    /\ hc = [pc |-> "off"]
    /\ pl = [pc |-> "off"]
    /\ san = [pc |-> "off"]
    /\ sc = [pc |-> "off"]


\* The memoised handleChatSubmit is created again by a render that changes one
\* of its dependencies; it then reads that render's captionIndex.
Recapture(h, ci) == IF h = <<>> THEN <<>> ELSE <<ci>>

\* Names of the working images; a load shows another image than the one
\* shown before it (0: no image yet).
Photos == {1, 2}

\* Faulty variant: the photo load clears the live captions and keeps the history.
LoadPhotoKeepsHistory ==
    /\ captions' = <<>>
    /\ hcsIndex' = Recapture(hcsIndex, captionIndex)
    /\ branchPhase' = 0
    /\ photo' \in Photos \ {photo}
    /\ UNCHANGED <<captionHistory, captionIndex, dragging, reqIndex, reqPhoto, pl, san, sc, ex, hc>>

\* resetCaptions(), called when a photo is loaded; the photo load changes
\* fileName / selectedPhoto / editedBlobState, so handleChatSubmit is created again.
LoadPhoto ==
    /\ captions' = <<>>
    /\ captionHistory' = << <<>> >>
    /\ captionIndex' = 0
    /\ hcsIndex' = Recapture(hcsIndex, 0)
    /\ branchPhase' = 0
    /\ photo' \in Photos \ {photo}
    /\ UNCHANGED <<dragging, reqIndex, reqPhoto, pl, san, sc, ex, hc>>

\* handleFileChange with a file that fails the type validation: resetCaptions()
\* and setFileName(file.name) have run before the early return; the working
\* image is not replaced.
RejectFile ==
    /\ captions' = <<>>
    /\ captionHistory' = << <<>> >>
    /\ captionIndex' = 0
    /\ hcsIndex' = Recapture(hcsIndex, 0)
    /\ branchPhase' = 0
    /\ UNCHANGED <<dragging, reqIndex, reqPhoto, pl, san, sc, ex, hc, photo>>

(***************************************************************************)
(* Caption drag (onCaptionPointerDown / Move / Up).                        *)
(***************************************************************************)
PointerDown ==
    /\ CaptionShown
    /\ dragging' = TRUE
    /\ UNCHANGED <<capVars, chatVars, branchPhase, pl, san, sc, ex, hc, photo>>

\* setCaptions(prev => prev.length === 0 ? prev : [...prev.slice(0, -1), {...last, x: nx, y: ny}])
MovedCaptions(prev, nx, ny) ==
    IF prev = <<>> THEN prev
    ELSE ReplaceLast(prev, [prev[Len(prev)] EXCEPT !.x = nx, !.y = ny])

PointerMove ==
    /\ CaptionShown
    /\ dragging
    /\ \E p \in PointerXYs :
          captions' = MovedCaptions(captions, clampNormalized(p[1], DefaultMargin),
                                    clampNormalized(p[2], DefaultMargin))
    /\ branchPhase' = AfterOther(branchPhase)
    /\ UNCHANGED <<captionHistory, captionIndex, dragging, chatVars, pl, san, sc, ex, hc, photo>>

\* onCaptionPointerUp is memoised with an empty dependency list: the
\* captionIndex and captions it reads are those of the first render.
UpClosureIndex == 0
UpClosureCaptions == <<>>

\* const base = prev.slice(0, captionIndex + 1); const next = [...base, captions]
ReleaseHistory(prev) == CommitHistory(prev, UpClosureIndex, UpClosureCaptions)

PointerUp ==
    /\ CaptionShown
    /\ dragging' = FALSE
    /\ captionHistory' = ReleaseHistory(captionHistory)
    /\ captionIndex' = CommitIndex(captionHistory')
    /\ branchPhase' = AfterOther(branchPhase)
    /\ UNCHANGED <<captions, chatVars, pl, san, sc, ex, hc, photo>>

(***************************************************************************)
(* Undo Caption / Redo Caption / Edit Caption buttons.  Their handlers are *)
(* created on every render and read the current render's values.           *)
(***************************************************************************)
UndoDisabled == captionIndex <= 0
RedoDisabled == captionIndex >= Len(captionHistory) - 1

\* setCaptionIndex(i => Math.max(0, i - 1))
UndoIndex(i) == Max(0, i - 1)
\* Faulty variant: Undo reads the snapshot under the old cursor.
UndoCaptionsStale(h, ci) == SnapshotAt(h, ci)
\* setCaptions(() => captionHistory[Math.max(0, captionIndex - 1)] || [])
UndoCaptions(h, ci) == SnapshotAt(h, Max(0, ci - 1))

\* setCaptionIndex(i => Math.min(captionHistory.length - 1, i + 1))
RedoIndex(h, i) == Min(Len(h) - 1, i + 1)
\* Faulty variant: Redo reads the snapshot under the old cursor.
RedoCaptionsStale(h, ci) == SnapshotAt(h, ci)
\* setCaptions(() => captionHistory[Math.min(captionHistory.length - 1, captionIndex + 1)] || [])
RedoCaptions(h, ci) == SnapshotAt(h, Min(Len(h) - 1, ci + 1))

\* A click on the Undo Caption control; a disabled button runs no handler.
UndoCaption ==
    /\ IF UndoDisabled
       THEN UNCHANGED <<capVars, branchPhase>>
       ELSE /\ captionIndex' = UndoIndex(captionIndex)
            /\ captions' = UndoCaptions(captionHistory, captionIndex)
            /\ branchPhase' = AfterUndo(branchPhase)
            /\ UNCHANGED captionHistory
    /\ UNCHANGED <<dragging, chatVars, pl, san, sc, ex, hc, photo>>

RedoCaption ==
    /\ IF RedoDisabled
       THEN UNCHANGED <<capVars, branchPhase>>
       ELSE /\ captionIndex' = RedoIndex(captionHistory, captionIndex)
            /\ captions' = RedoCaptions(captionHistory, captionIndex)
            /\ branchPhase' = AfterOther(branchPhase)
            /\ UNCHANGED captionHistory
    /\ UNCHANGED <<dragging, chatVars, pl, san, sc, ex, hc, photo>>

(***************************************************************************)
(* The commit shared by set_caption, move_caption, style_caption and Edit  *)
(* Caption: the setCaptions updater returns next, the nested               *)
(* setCaptionHistory updater appends it after the closure's captionIndex   *)
(* and sets the cursor to the last index.  cs is the caption state         *)
(* [captions, history, index, committed].                                  *)
(***************************************************************************)
CapState == [captions |-> captions, history |-> captionHistory,
             index |-> captionIndex, committed |-> FALSE]

CommitState(cs, ci, next) ==
    [captions |-> next,
     history |-> CommitHistory(cs.history, ci, next),
     index |-> CommitIndex(CommitHistory(cs.history, ci, next)),
     committed |-> TRUE]

\* Length of the history a commit with closure index ci produces.
CommitLen(ci) == Min(Len(captionHistory), ci + 1) + 1

\* The caption state after a handler, written to the React state.
Becomes(cs) ==
    /\ captions' = cs.captions
    /\ captionHistory' = cs.history
    /\ captionIndex' = cs.index
    /\ branchPhase' = IF cs.committed THEN AfterCommit(branchPhase) ELSE branchPhase

\* Edit Caption: if (prev.length === 0) return prev; else commit {...last, text: newText}
EditResults(cs, ci) ==
    IF cs.captions = <<>> THEN {cs}
    ELSE { CommitState(cs, ci,
               ReplaceLast(cs.captions, [cs.captions[Len(cs.captions)] EXCEPT !.text = t]))
           : t \in Texts }

EditCaption ==
    /\ captions # <<>> => CommitLen(captionIndex) <= MaxHist
    /\ \E cs \in EditResults(CapState, captionIndex) : Becomes(cs)
    /\ UNCHANGED <<dragging, chatVars, pl, san, sc, ex, hc, photo>>

(***************************************************************************)
(* handleChatSubmit.  It is memoised on chatInput, chatLoading,            *)
(* chatMessages and the photo/editor state, not on captionIndex: the       *)
(* cursor it reads is the one of the render that last changed one of       *)
(* those, and a running call keeps the cursor it was created with while    *)
(* the request is in flight.                                               *)
(***************************************************************************)
\* The user edits the chat box: chatInput changes, the callback is created again.
TypeChat ==
    /\ hcsIndex' \in {<<>>, <<captionIndex>>}
    /\ UNCHANGED <<capVars, dragging, reqIndex, reqPhoto, branchPhase, pl, san, sc, ex, hc, photo>>

\* The form is submitted: the handler returns early when chatLoading is set or
\* the input is blank; else it clears the input and awaits the assistant.
SubmitChat ==
    /\ reqIndex = <<>>
    /\ hcsIndex # <<>>
    /\ reqIndex' = hcsIndex
    /\ reqPhoto' = <<photo>>
    /\ hcsIndex' = <<>>
    /\ UNCHANGED <<capVars, dragging, branchPhase, pl, san, sc, ex, hc, photo>>

\* set_caption: the new caption replaces the last one, or is the first.
SetCaptionNext(prev, c) == IF prev # <<>> THEN ReplaceLast(prev, c) ELSE <<c>>

SetResults(cs, ci) ==
    { CommitState(cs, ci, SetCaptionNext(cs.captions, c)) : c \in Caption }

\* move_caption / suggest_position: value.dx / value.dy, else value.x / value.y,
\* else unchanged.
MoveTargets(last) ==
    { <<clampNormalized(last.x + d[1], DefaultMargin),
        clampNormalized(last.y + d[2], DefaultMargin)>> : d \in ValueDxys }
    \cup { <<clampNormalized(v[1], DefaultMargin),
             clampNormalized(v[2], DefaultMargin)>> : v \in ValueXYs }
    \cup { <<last.x, last.y>> }

\* Faulty variant: the moved caption is appended and the last one kept.
MoveResultsAppend(cs, ci) ==
    IF cs.captions = <<>> THEN {cs}
    ELSE { CommitState(cs, ci,
               Append(cs.captions,
                   [cs.captions[Len(cs.captions)] EXCEPT !.x = n[1], !.y = n[2]]))
           : n \in MoveTargets(cs.captions[Len(cs.captions)]) }
MoveResults(cs, ci) ==
    IF cs.captions = <<>> THEN {cs}
    ELSE { CommitState(cs, ci,
               ReplaceLast(cs.captions,
                   [cs.captions[Len(cs.captions)] EXCEPT !.x = n[1], !.y = n[2]]))
           : n \in MoveTargets(cs.captions[Len(cs.captions)]) }

\* style_caption: value.sizePct when it is a number, else unchanged.
StyleTargets(last) == SizePcts \cup {last.sizePct}

StyleResults(cs, ci) ==
    IF cs.captions = <<>> THEN {cs}
    ELSE { CommitState(cs, ci,
               ReplaceLast(cs.captions, [cs.captions[Len(cs.captions)] EXCEPT !.sizePct = sz]))
           : sz \in StyleTargets(cs.captions[Len(cs.captions)]) }

\* One turn of `for (const action of data.actions)`; an action of another type
\* changes nothing.
ActionResults(cs, ci) ==
    SetResults(cs, ci) \cup MoveResults(cs, ci) \cup StyleResults(cs, ci) \cup {cs}

\* The caption states after k actions, all applied with the same closure.
RECURSIVE AfterActions(_, _, _)
AfterActions(k, S, ci) ==
    IF k = 0 THEN S
    ELSE AfterActions(k - 1, UNION {ActionResults(cs, ci) : cs \in S}, ci)

\* The assistant's response arrives and its actions (at most MaxActions) are
\* applied; then setChatMessages / setChatLoading(false) create the callback again.
ChatResponse ==
    /\ reqIndex # <<>>
    /\ CommitLen(reqIndex[1]) <= MaxHist
    /\ \E cs \in AfterActions(MaxActions, {CapState}, reqIndex[1]) :
          /\ Becomes(cs)
          /\ hcsIndex' = Recapture(hcsIndex, cs.index)
    /\ reqIndex' = <<>>
    /\ reqPhoto' = <<>>
    /\ UNCHANGED <<dragging, pl, san, sc, ex, hc, photo>>

NextCommit ==
    \/ LoadPhoto
    \/ RejectFile
    \/ UndoCaption
    \/ RedoCaption
    \/ EditCaption
    \/ TypeChat
    \/ SubmitChat
    \/ ChatResponse

Next ==
    \/ NextCommit
    \/ PointerDown
    \/ PointerMove
    \/ PointerUp

Spec == Init /\ [][Next]_vars

\* The caption state machine without caption drags.
SpecCommit == Init /\ [][NextCommit]_vars

(***************************************************************************)
(* Part 2: measureAndPlaceCaption.                                         *)
(*                                                                         *)
(* Units.  preferredX / preferredY are per-mille; marginPct is in tenths   *)
(* of a percent, so marginPct / 100 is marginPct per-mille; sizePct is in  *)
(* 1/SizeUnit percent; lengths in pixels are in milli-pixels.  A returned  *)
(* x is kept as x * 1000 * W (a milli-pixel abscissa) and a returned y as  *)
(* y * 1000 * H, so no division is needed: lo <= x <= hi (per-mille) is    *)
(* lo * W <= ret.x <= hi * W.                                              *)
(***************************************************************************)
MaxTextLen == 40          \* longest caption text measured, in characters
MaxIter == 12             \* for (let i = 0; i < 12; i += 1)
CharAdvance == 600        \* width of a character, per mille of the font size
MinFontPx == 10           \* Math.max(10, ...)

Anchors == {"tl", "tc", "tr", "cl", "cc", "cr", "bl", "bc", "br"}
TextLens == {0, 5, MaxTextLen}
PreferredXs == {0, 500, 1000}
PreferredYs == {0, 950, 1000}
PreferredSizes == {SizeUnit \div 2, 5 * SizeUnit, 10 * SizeUnit, 60 * SizeUnit}
MarginPcts == {10, 15}
Stages == {<<1000, 800>>, <<800, 1000>>, <<200, 100>>}

Requests ==
    [n : TextLens, preferredX : PreferredXs, preferredY : PreferredYs,
     preferredAnchor : Anchors, preferredSizePct : PreferredSizes,
     marginPct : MarginPcts, stage : Stages, ctx : BOOLEAN]

StageW(r) == r.stage[1]
StageH(r) == r.stage[2]
\* const maxSide = Math.max(W, H)
MaxSide(r) == Max(StageW(r), StageH(r))
\* const marginPx = (marginPct / 100) * maxSide      (milli-pixels)
MarginPx(r) == r.marginPct * MaxSide(r)

\* Math.round(v) for v = num / den >= 0
Round(num, den) == (2 * num + den) \div (2 * den)

\* const fontPx = Math.max(10, Math.round((sizePct / 100) * maxSide))
FontPx(sizePct, maxSide) == Max(MinFontPx, Round(sizePct * maxSide, 100 * SizeUnit))

\* ctx.measureText(text).width, in milli-pixels: the measurement surface is
\* taken to advance 0.6 of the font size per character.
TextWidth(n, fontPx) == n * fontPx * CharAdvance

\* ascent + descent with the fallbacks fontPx * 0.8 and fontPx * 0.2, each at least 1
TextHeight(fontPx) == Max(fontPx * 800, 1000) + Max(fontPx * 200, 1000)

\* anchorOffset(aw, ah, a)
AnchorOx(aw, a) ==
    IF a \in {"tl", "cl", "bl"} THEN 0
    ELSE IF a \in {"tr", "cr", "br"} THEN aw
    ELSE aw \div 2
AnchorOy(ah, a) ==
    IF a \in {"tl", "tc", "tr"} THEN 0
    ELSE IF a \in {"cl", "cc", "cr"} THEN ah \div 2
    ELSE ah

\* if (px < marginPx) px = marginPx
ClampLow(p, marginPx) == IF p < marginPx THEN marginPx ELSE p
\* Faulty variant: the box is not shifted back from the far margin.
ClampHighNoShift(p, size, side, marginPx) == p
\* if (px + textWidth > W - marginPx) px = Math.max(marginPx, W - marginPx - textWidth)
ClampHigh(p, size, side, marginPx) ==
    IF p + size > side - marginPx THEN Max(marginPx, side - marginPx - size) ELSE p

\* let px = preferredX * W - ox, then the two clamps
PlacedLeft(pref, side, off, size, marginPx) ==
    ClampHigh(ClampLow(pref * side - off, marginPx), size, side * 1000, marginPx)

\* const fits = textWidth <= (W - 2 * marginPx) && textHeight <= (H - 2 * marginPx)
Fits(r, tw, th) ==
    /\ tw <= StageW(r) * 1000 - 2 * MarginPx(r)
    /\ th <= StageH(r) * 1000 - 2 * MarginPx(r)

\* sizePct = Math.max(1, sizePct * 0.9)
Shrink(sizePct) == Max(SizeUnit, (sizePct * 9) \div 10)

\* clampNormalized((px + ox) / W, margin), scaled by 1000 * W
ClampOut(v, side, margin) == Max(margin * side, Min((1000 - margin) * side, v))

\* return { x: outX, y: outY, sizePct, anchor } inside the loop
FitReturn(r, sizePct) ==
    [x |-> ClampOut(PlacedLeft(r.preferredX, StageW(r),
                        AnchorOx(TextWidth(r.n, FontPx(sizePct, MaxSide(r))), r.preferredAnchor),
                        TextWidth(r.n, FontPx(sizePct, MaxSide(r))), MarginPx(r))
                    + AnchorOx(TextWidth(r.n, FontPx(sizePct, MaxSide(r))), r.preferredAnchor),
                    StageW(r), r.marginPct),
     y |-> ClampOut(PlacedLeft(r.preferredY, StageH(r),
                        AnchorOy(TextHeight(FontPx(sizePct, MaxSide(r))), r.preferredAnchor),
                        TextHeight(FontPx(sizePct, MaxSide(r))), MarginPx(r))
                    + AnchorOy(TextHeight(FontPx(sizePct, MaxSide(r))), r.preferredAnchor),
                    StageH(r), r.marginPct),
     sizePct |-> sizePct,
     anchor |-> r.preferredAnchor,
     path |-> "fit"]

\* if (!ctx) return { x: clampNormalized(preferredX), y: clampNormalized(preferredY), ... }
NoContextReturn(r) ==
    [x |-> clampNormalized(r.preferredX, DefaultMargin) * StageW(r),
     y |-> clampNormalized(r.preferredY, DefaultMargin) * StageH(r),
     sizePct |-> r.preferredSizePct,
     anchor |-> r.preferredAnchor,
     path |-> "noctx"]

\* Faulty variant: the return after the loop keeps the preferred size.
FallbackReturnSameSize(r) ==
    [x |-> clampNormalized(r.preferredX, DefaultMargin) * StageW(r),
     y |-> clampNormalized(r.preferredY, DefaultMargin) * StageH(r),
     sizePct |-> r.preferredSizePct,
     anchor |-> r.preferredAnchor,
     path |-> "fallback"]
\* the return after the loop: sizePct: Math.max(1, preferredSizePct * 0.7)
FallbackReturn(r) ==
    [x |-> clampNormalized(r.preferredX, DefaultMargin) * StageW(r),
     y |-> clampNormalized(r.preferredY, DefaultMargin) * StageH(r),
     sizePct |-> Max(SizeUnit, (r.preferredSizePct * 7) \div 10),
     anchor |-> r.preferredAnchor,
     path |-> "fallback"]

\* Faulty variant: a turn that does not fit leaves the counter alone.
NextIStuck(i) == i
\* i += 1
NextI(i) == i + 1

NoReturn == [x |-> 0, y |-> 0, sizePct |-> 0, anchor |-> "bc", path |-> "none"]

InitPlace ==
    /\ captions = <<>>
    /\ captionHistory = << <<>> >>
    /\ captionIndex = 0
    /\ dragging = FALSE
    /\ hcsIndex = <<>>
    /\ reqIndex = <<>>
    /\ branchPhase = 0
    /\ photo = 0
    /\ reqPhoto = <<>>
    /\ ex = [pc |-> "off"]
    /\ hc = [pc |-> "off"]
    /\ \E r \in Requests :
          pl = [pc |-> "call", req |-> r, i |-> 0, sizePct |-> r.preferredSizePct,
                ret |-> NoReturn]
    /\ san = [pc |-> "off"]
    /\ sc = [pc |-> "off"]

\* The call up to the loop: without a 2d context it returns at once.
PlaceCall ==
    /\ pl.pc = "call"
    /\ pl' = IF pl.req.ctx
             THEN [pl EXCEPT !.pc = "loop"]
             ELSE [pl EXCEPT !.pc = "done", !.ret = NoContextReturn(pl.req)]
    /\ UNCHANGED <<capVars, dragging, chatVars, branchPhase, san, sc, ex, hc, photo>>

\* One turn of the fit loop: return when the box fits, else shrink and go on.
FitIteration ==
    /\ pl.pc = "loop"
    /\ pl.i < MaxIter
    /\ pl' = IF Fits(pl.req, TextWidth(pl.req.n, FontPx(pl.sizePct, MaxSide(pl.req))),
                     TextHeight(FontPx(pl.sizePct, MaxSide(pl.req))))
             THEN [pl EXCEPT !.pc = "done", !.ret = FitReturn(pl.req, pl.sizePct)]
             ELSE [pl EXCEPT !.sizePct = Shrink(pl.sizePct), !.i = NextI(pl.i)]
    /\ UNCHANGED <<capVars, dragging, chatVars, branchPhase, san, sc, ex, hc, photo>>

\* The loop ran out of turns.
FitFallback ==
    /\ pl.pc = "loop"
    /\ pl.i >= MaxIter
    /\ pl' = [pl EXCEPT !.pc = "done", !.ret = FallbackReturn(pl.req)]
    /\ UNCHANGED <<capVars, dragging, chatVars, branchPhase, san, sc, ex, hc, photo>>

NextPlace ==
    \/ PlaceCall
    \/ FitIteration
    \/ FitFallback

SpecPlace == InitPlace /\ [][NextPlace]_vars

\* The call runs to completion on the event loop: a step that can be taken is taken.
FairSpecPlace == SpecPlace /\ WF_vars(NextPlace)

(***************************************************************************)
(* Part 3: sanitizeCaptionHtml.                                            *)
(*                                                                         *)
(* A string is a sequence of one-character strings.  The inputs are built  *)
(* from the pieces below, so the tag names that can be spelled are b and   *)
(* br (allowed) and names with a or r in them (not allowed); the regular   *)
(* expressions are case-insensitive and the model keeps to lower case.     *)
(* Each String.replace(/re/g, r) scans from the left: where the expression *)
(* matches, the match is replaced and the scan goes on after it; else the  *)
(* character is kept and the scan moves one position.                      *)
(***************************************************************************)
MaxPieces == 5

Pieces == { <<"<">>, <<"<", "b">>, <<">">>, <<"/">>, <<" ">>, <<"a">>, <<"r">> }

RECURSIVE Flatten(_)
Flatten(ps) == IF ps = <<>> THEN <<>> ELSE Head(ps) \o Flatten(Tail(ps))

\* (b|strong|i|em|small|br) and (b|strong|i|em|small), as far as the pieces spell them
WhiteNames == { <<"b">>, <<"b", "r">> }
PairNames == { <<"b">> }
BrName == <<"b", "r">>
BrTag == <<"<", "b", "r", "/", ">">>

\* \w and \s on the alphabet of the pieces
IsWord(c) == c \in {"a", "b", "r"}
IsSpace(c) == c = " "

\* The character at position i; "" past either end.
At(s, i) == IF i >= 1 /\ i <= Len(s) THEN s[i] ELSE ""

StartsAt(s, i, p) == i + Len(p) - 1 <= Len(s) /\ SubSeq(s, i, i + Len(p) - 1) = p

\* [^>]*> from position i: the position of the first ">" at or after i, 0 if none.
RECURSIVE FirstGt(_, _)
FirstGt(s, i) ==
    IF i > Len(s) THEN 0 ELSE IF s[i] = ">" THEN i ELSE FirstGt(s, i + 1)

\* \s* from position i: the first position that holds no white space.
RECURSIVE SkipSpaces(_, _)
SkipSpaces(s, i) == IF IsSpace(At(s, i)) THEN SkipSpaces(s, i + 1) ELSE i

\* Each ...End(s, i) is the last position of the match that starts at i, 0 if
\* the expression does not match there.

\* /<br\s*>/
BrOpenEnd(s, i) ==
    IF StartsAt(s, i, <<"<">> \o BrName) /\ At(s, SkipSpaces(s, i + 3)) = ">"
    THEN SkipSpaces(s, i + 3) ELSE 0

\* \/?(b|strong|i|em|small|br)\b at position j
AllowedAt(s, j) ==
    \E name \in WhiteNames : \E k \in {j, j + 1} :
        /\ k = j + 1 => At(s, j) = "/"
        /\ StartsAt(s, k, name)
        /\ ~IsWord(At(s, k + Len(name)))

\* /<(?!\/?(b|strong|i|em|small|br)\b)[^>]*>/
DisallowedEnd(s, i) ==
    IF s[i] = "<" /\ ~AllowedAt(s, i + 1) THEN FirstGt(s, i + 1) ELSE 0

\* /<(b|strong|i|em|small)(\s+[^>]*)?>/ with the name given
OpenEndOf(s, i, name) ==
    IF ~StartsAt(s, i, <<"<">> \o name) THEN 0
    ELSE IF At(s, i + 1 + Len(name)) = ">" THEN i + 1 + Len(name)
    ELSE IF IsSpace(At(s, i + 1 + Len(name))) THEN FirstGt(s, i + 2 + Len(name))
    ELSE 0

\* /<\/(b|strong|i|em|small)>/ with the name given
CloseEndOf(s, i, name) ==
    IF StartsAt(s, i, <<"<", "/">> \o name \o <<">">>) THEN i + 2 + Len(name) ELSE 0

\* /<br[^>]*>/
BrAnyEnd(s, i) ==
    IF StartsAt(s, i, <<"<">> \o BrName) THEN FirstGt(s, i + 3) ELSE 0

\* html.replace(/<br\s*>/gi, '<br/>')
RECURSIVE NormalizeBrOpen(_, _)
NormalizeBrOpen(s, i) ==
    IF i > Len(s) THEN <<>>
    ELSE IF BrOpenEnd(s, i) # 0 THEN BrTag \o NormalizeBrOpen(s, BrOpenEnd(s, i) + 1)
    ELSE <<s[i]>> \o NormalizeBrOpen(s, i + 1)

\* html.replace(/<(?!\/?(b|strong|i|em|small|br)\b)[^>]*>/gi, '')
RECURSIVE StripDisallowed(_, _)
StripDisallowed(s, i) ==
    IF i > Len(s) THEN <<>>
    ELSE IF DisallowedEnd(s, i) # 0 THEN StripDisallowed(s, DisallowedEnd(s, i) + 1)
    ELSE <<s[i]>> \o StripDisallowed(s, i + 1)

\* html.replace(/<(b|strong|i|em|small)(\s+[^>]*)?>/gi, '<$1>')
RECURSIVE StripAttributes(_, _)
StripAttributes(s, i) ==
    IF i > Len(s) THEN <<>>
    ELSE IF \E name \in PairNames : OpenEndOf(s, i, name) # 0
         THEN LET name == CHOOSE nm \in PairNames : OpenEndOf(s, i, nm) # 0
              IN  <<"<">> \o name \o <<">">>
                  \o StripAttributes(s, OpenEndOf(s, i, name) + 1)
    ELSE <<s[i]>> \o StripAttributes(s, i + 1)

\* html.replace(/<\/(b|strong|i|em|small)>/gi, '</$1>')
RECURSIVE NormalizeClose(_, _)
NormalizeClose(s, i) ==
    IF i > Len(s) THEN <<>>
    ELSE IF \E name \in PairNames : CloseEndOf(s, i, name) # 0
         THEN LET name == CHOOSE nm \in PairNames : CloseEndOf(s, i, nm) # 0
              IN  <<"<", "/">> \o name \o <<">">>
                  \o NormalizeClose(s, CloseEndOf(s, i, name) + 1)
    ELSE <<s[i]>> \o NormalizeClose(s, i + 1)

\* html.replace(/<br[^>]*>/gi, '<br/>')
RECURSIVE NormalizeBrAny(_, _)
NormalizeBrAny(s, i) ==
    IF i > Len(s) THEN <<>>
    ELSE IF BrAnyEnd(s, i) # 0 THEN BrTag \o NormalizeBrAny(s, BrAnyEnd(s, i) + 1)
    ELSE <<s[i]>> \o NormalizeBrAny(s, i + 1)

sanitizeCaptionHtml(input) ==
    IF input = <<>> THEN <<>>
    ELSE NormalizeBrAny(
           NormalizeClose(
             StripAttributes(
               StripDisallowed(
                 NormalizeBrOpen(input, 1), 1), 1), 1), 1)

\* A caption text arrives; resolveCaptionText will sanitize it for storing.
InitSan ==
    /\ captions = <<>>
    /\ captionHistory = << <<>> >>
    /\ captionIndex = 0
    /\ dragging = FALSE
    /\ hcsIndex = <<>>
    /\ reqIndex = <<>>
    /\ branchPhase = 0
    /\ photo = 0
    /\ reqPhoto = <<>>
    /\ ex = [pc |-> "off"]
    /\ hc = [pc |-> "off"]
    /\ pl = [pc |-> "off"]
    /\ \E n \in 0..MaxPieces : \E ps \in [1..n -> Pieces] :
          san = [pc |-> "call", input |-> Flatten(ps), out |-> <<>>, html |-> <<>>]
    /\ sc = [pc |-> "off"]

\* resolveCaptionText: the text kept in the caption is the sanitizer's output.
SanitizeStored ==
    /\ san.pc = "call"
    /\ san' = [san EXCEPT !.pc = "stored", !.out = sanitizeCaptionHtml(san.input)]
    /\ UNCHANGED <<capVars, dragging, chatVars, branchPhase, pl, sc, ex, hc, photo>>

\* The overlay: dangerouslySetInnerHTML={{ __html: sanitizeCaptionHtml(c.text) }}
RenderOverlay ==
    /\ san.pc = "stored"
    /\ san' = [san EXCEPT !.pc = "rendered", !.html = sanitizeCaptionHtml(san.out)]
    /\ UNCHANGED <<capVars, dragging, chatVars, branchPhase, pl, sc, ex, hc, photo>>

NextSan ==
    \/ SanitizeStored
    \/ RenderOverlay

SpecSan == InitSan /\ [][NextSan]_vars

(***************************************************************************)
(* Part 4: one set_caption action of handleChatSubmit, applied to the      *)
(* caption state of a photo that has no caption yet (lastCaption is the    *)
(* default caption), and the drags and move_caption actions that follow.   *)
(*                                                                         *)
(* Units.  Caption x / y are per-mille.  In the grid search a length is in *)
(* milli-pixels (x * W for a per-mille x), a cost in millionths; size2 is  *)
(* the size in half percents.  In nudgeAwayFromDetail an ordinate is in    *)
(* millionths of the stage height.                                         *)
(*                                                                         *)
(* measureRegionDetail reads pixels; the model knows four images by the    *)
(* detail score of a region: "flat" has no detail, "busy" has full detail  *)
(* everywhere, "ground" is busy in the rows below 0.7 and calm above,      *)
(* "sky" is calm in the rows above 0.25 and busy below.                    *)
(***************************************************************************)
MaxPct2 == 16          \* maxPct = 8
MinPct2 == 6           \* minPct = 3
GridMargin == 15       \* marginPct = 1.5, as marginPct / 100 in per-mille
Infinity == 2000000000 \* let bestCost = Infinity
ClearCost == 80000     \* bestCost < 0.08, bestScore < 0.08
NudgeSteps == 16       \* for (let step = 1; step <= 16; step += 1)

DefaultCaption == [text |-> 0, x |-> 500, y |-> 900, sizePct |-> 5 * SizeUnit, anchor |-> "bc"]

AnchorOrder == <<"tc", "bc", "tl", "tr", "bl", "br", "cc">>
GridXs == <<200, 350, 500, 650, 800>>
GridYs == <<150, 300, 500, 700, 850>>
GridSize == Len(AnchorOrder) * Len(GridXs) * Len(GridYs)

Images == {"flat", "busy", "ground", "sky"}

\* measureRegionDetail(imgEl, rect).detail in per-mille, for a region whose
\* rows run from top to bottom (per-mille of the height)
Detail(img, top, bottom) ==
    IF img = "flat" THEN 0
    ELSE IF img = "busy" THEN 1000
    ELSE IF img = "ground" THEN (IF bottom > 700 THEN 600 ELSE 20)
    ELSE IF bottom > 250 THEN 600 ELSE 20

\* The set_caption actions: text of n characters (0: no text), value.x / value.y
\* (<<>>: not given), value.sizePct (<<>>: not given), the stage image's natural
\* size (<<>>: no stage image) and the image shown.
SetValues ==
    [n : {0, 1, 5, MaxTextLen},
     xy : {<<>>, <<500, 900>>, <<0, 1000>>},
     sizePct : {<<>>, <<0>>, <<5 * SizeUnit>>},
     stage : {<<>>, <<1000, 800>>, <<1000, 1000>>, <<500, 100>>, <<200, 100>>},
     img : Images]

\* measureTextBoxNorm: the font size for size2 half percents
GridFontPx(size2, maxSide) == Max(MinFontPx, Round(size2 * maxSide, 200))

\* if (rect.x < m || rect.y < m || rect.x + rect.w > 1 - m || rect.y + rect.h > 1 - m) continue
\* with rect.x = x - aw/2, rect.y = y - ah/2; both sides doubled
MarginOk(x, y, tw, th, W, H) ==
    /\ 2 * x * W - tw >= 2 * GridMargin * W
    /\ 2 * y * H - th >= 2 * GridMargin * H
    /\ 2 * x * W + tw <= 2 * (1000 - GridMargin) * W
    /\ 2 * y * H + th <= 2 * (1000 - GridMargin) * H

\* Math.min(1, Math.min(rect.x - m, rect.y - m, 1 - m - (rect.x + rect.w), 1 - m - (rect.y + rect.h)))
EdgePenalty(x, y, tw, th, W, H) ==
    Min(1000,
        Min(Min((2 * x * W - tw - 2 * GridMargin * W) \div (2 * W),
                (2 * y * H - th - 2 * GridMargin * H) \div (2 * H)),
            Min((2 * (1000 - GridMargin) * W - 2 * x * W - tw) \div (2 * W),
                (2 * (1000 - GridMargin) * H - 2 * y * H - th) \div (2 * H))))

\* const cost = detail + (0.15 * (1 - edgePenalty)) + centeredAnchorPenalty
Cost(img, anchor, preferredAnchor, x, y, tw, th, W, H) ==
    1000 * Detail(img, (2 * y * H - th) \div (2 * H), (2 * y * H + th) \div (2 * H))
    + 150 * (1000 - EdgePenalty(x, y, tw, th, W, H))
    + (IF anchor = preferredAnchor THEN 0 ELSE 20000)

\* Faulty variant: only a placement on a calm region is taken.
BetterClear(cost, bestCost) == cost < bestCost /\ cost < ClearCost
\* if (cost < bestCost)
Better(cost, bestCost) == cost < bestCost

\* The k-th turn (k from 0) of: for (const anchor of anchors) for (const x of xs) for (const y of ys)
CandAnchor(k) == AnchorOrder[(k \div (Len(GridXs) * Len(GridYs))) + 1]
CandX(k) == GridXs[((k \div Len(GridYs)) % Len(GridXs)) + 1]
CandY(k) == GridYs[(k % Len(GridYs)) + 1]

\* The box measured for size2 and the cost of the k-th candidate
BoxW(v, size2) == TextWidth(v.n, GridFontPx(size2, Max(v.stage[1], v.stage[2])))
BoxH(v, size2) == TextHeight(GridFontPx(size2, Max(v.stage[1], v.stage[2])))
CandCost(k, v, size2) ==
    Cost(v.img, CandAnchor(k), DefaultCaption.anchor, CandX(k), CandY(k),
         BoxW(v, size2), BoxH(v, size2), v.stage[1], v.stage[2])

\* The turns of the three inner loops that get past the margin test
Passing(v, size2) ==
    { k \in 0..(GridSize - 1) :
        MarginOk(CandX(k), CandY(k), BoxW(v, size2), BoxH(v, size2),
                 v.stage[1], v.stage[2]) }

\* The three inner loops for one size; acc is [best, cost], best being <<>>
\* for null.  The comparison is strict, so the loops end with the first
\* candidate of least cost, if that cost beats the cost they started with.
ScanGrid(acc, v, size2) ==
    IF Passing(v, size2) = {} THEN acc
    ELSE LET costs == { CandCost(k, v, size2) : k \in Passing(v, size2) }
             least == CHOOSE c \in costs : \A d \in costs : c <= d
             firsts == { k \in Passing(v, size2) : CandCost(k, v, size2) = least }
             k == CHOOSE a \in firsts : \A b \in firsts : a <= b
         IN  IF Better(least, acc.cost)
             THEN [best |-> <<[x |-> CandX(k), y |-> CandY(k), size2 |-> size2,
                              anchor |-> CandAnchor(k)]>>,
                   cost |-> least]
             ELSE acc

\* finalX, finalY, finalSize before any placement (lastCaption is DefaultCaption)
FirstX(v) == IF v.xy # <<>> THEN clampNormalized(v.xy[1], DefaultMargin) ELSE DefaultCaption.x
FirstY(v) == IF v.xy # <<>> THEN clampNormalized(v.xy[2], DefaultMargin) ELSE DefaultCaption.y
FirstSize(v) == IF v.sizePct # <<>> THEN v.sizePct[1] ELSE DefaultCaption.sizePct

\* if (stageEl && stageW && stageH && value?.text)
HasStageAndText(v) == v.stage # <<>> /\ v.n > 0

\* The arguments of the measureAndPlaceCaption call of the deterministic path
MeasureRequest(v) ==
    [n |-> v.n, preferredX |-> FirstX(v), preferredY |-> FirstY(v),
     preferredAnchor |-> DefaultCaption.anchor, preferredSizePct |-> FirstSize(v),
     marginPct |-> GridMargin, stage |-> v.stage, ctx |-> TRUE]

\* clampNormalized on millionths
ClampMillionths(v) == Max(1000 * DefaultMargin, Min(1000 * (1000 - DefaultMargin), v))

\* const approxH = Math.max(0.04, (px * 1.2) / stageH), in millionths
ApproxH(v, sizePct) ==
    Max(40000, (FontPx(sizePct, Max(v.stage[1], v.stage[2])) * 1200000) \div v.stage[2])

\* measureRegionDetail for the rows y .. y + h given in millionths
DetailAt(img, y, h) == Detail(img, y \div 1000, (y + h) \div 1000)

\* The loop of nudgeAwayFromDetail from turn `step` on; the result is best.y.
RECURSIVE NudgeScan(_, _, _, _, _, _)
NudgeScan(step, best, bestScore, posY, h, img) ==
    IF step > NudgeSteps THEN best
    ELSE LET up == Max(20000, posY - step * 20000)
             down == Min(980000 - h, posY + step * 20000)
             upScore == DetailAt(img, up, h)
             best1 == IF upScore < bestScore THEN up ELSE best
             score1 == Min(upScore, bestScore)
             dnScore == DetailAt(img, down, h)
             best2 == IF dnScore < score1 THEN down ELSE best1
             score2 == Min(dnScore, score1)
         IN  IF 1000 * score2 < ClearCost THEN best2
             ELSE NudgeScan(step + 1, best2, score2, posY, h, img)

\* nudgeAwayFromDetail(stageEl, pos).y
nudgeAwayFromDetail(img, posY, h) ==
    NudgeScan(1, posY, DetailAt(img, posY, h), posY, h, img)

\* finalX = clampNormalized(rect.x + rect.w / 2), rect.x = clampNormalized(finalX) - approxW / 2
NudgedX(v, ret) == ClampMillionths(ClampMillionths((ret.x * 1000) \div v.stage[1])) \div 1000

\* finalY = clampNormalized(rect.y + rect.h / 2), rect = nudgeAwayFromDetail(...)
NudgedY(v, ret) ==
    ClampMillionths(
        (2 * nudgeAwayFromDetail(v.img,
                 ClampMillionths((ret.y * 1000) \div v.stage[2])
                   - ApproxH(v, ret.sizePct) \div 2,
                 ApproxH(v, ret.sizePct))
         + ApproxH(v, ret.sizePct)) \div 2) \div 1000

InitSet ==
    /\ captions = <<>>
    /\ captionHistory = << <<>> >>
    /\ captionIndex = 0
    /\ dragging = FALSE
    /\ hcsIndex = <<>>
    /\ reqIndex = <<>>
    /\ branchPhase = 0
    /\ photo = 0
    /\ reqPhoto = <<>>
    /\ ex = [pc |-> "off"]
    /\ hc = [pc |-> "off"]
    /\ pl = [pc |-> "off"]
    /\ san = [pc |-> "off"]
    /\ \E v \in SetValues :
          sc = [pc |-> "begin", value |-> v, path |-> "none", size2 |-> MaxPct2,
                best |-> <<>>, cost |-> Infinity, scanned |-> <<>>,
                x |-> 0, y |-> 0, sizePct |-> 0, caption |-> <<>>]

\* The path the action takes: no placement, the grid search, or measure and nudge.
PathOf(v) ==
    IF ~HasStageAndText(v) THEN "commit"
    ELSE IF v.xy = <<>> THEN "search" ELSE "measure"

\* The head of the set_caption branch: finalX, finalY, finalSize and the strategy.
SetBegin ==
    /\ sc.pc = "begin"
    /\ sc' = [sc EXCEPT !.pc = PathOf(sc.value), !.path = PathOf(sc.value),
                        !.x = FirstX(sc.value), !.y = FirstY(sc.value),
                        !.sizePct = FirstSize(sc.value)]
    /\ pl' = IF PathOf(sc.value) = "measure"
             THEN [pc |-> "call", req |-> MeasureRequest(sc.value), i |-> 0,
                   sizePct |-> FirstSize(sc.value), ret |-> NoReturn]
             ELSE pl
    /\ UNCHANGED <<capVars, dragging, chatVars, branchPhase, san, ex, hc, photo>>

\* Faulty variant: the size loop never ends early.
GoodEnoughNever(acc) == FALSE
\* if (best && bestCost < 0.08) break
GoodEnough(acc) == acc.best # <<>> /\ acc.cost < ClearCost

\* findBestCaptionPlacement: one turn of `for (let size = maxPct; size >= minPct; size -= 0.5)`:
\* the three inner loops, then the test for the break.  scanned lists the
\* sizes whose candidates were evaluated.
SearchSize ==
    /\ sc.pc = "search"
    /\ sc.size2 >= MinPct2
    /\ LET acc == ScanGrid([best |-> sc.best, cost |-> sc.cost], sc.value, sc.size2)
       IN  sc' = IF GoodEnough(acc)
                 THEN [sc EXCEPT !.best = acc.best, !.cost = acc.cost, !.pc = "found",
                                 !.scanned = Append(@, sc.size2)]
                 ELSE [sc EXCEPT !.best = acc.best, !.cost = acc.cost,
                                 !.size2 = sc.size2 - 1,
                                 !.scanned = Append(@, sc.size2)]
    /\ UNCHANGED <<capVars, dragging, chatVars, branchPhase, pl, san, ex, hc, photo>>

\* The size loop ran out: return best
SearchEnd ==
    /\ sc.pc = "search"
    /\ sc.size2 < MinPct2
    /\ sc' = [sc EXCEPT !.pc = "found"]
    /\ UNCHANGED <<capVars, dragging, chatVars, branchPhase, pl, san, ex, hc, photo>>

\* if (best) { finalX = best.x; finalY = best.y; finalSize = best.sizePct; ... }
ApplyBest ==
    /\ sc.pc = "found"
    /\ sc' = IF sc.best # <<>>
             THEN [sc EXCEPT !.pc = "commit", !.x = sc.best[1].x, !.y = sc.best[1].y,
                             !.sizePct = (sc.best[1].size2 * SizeUnit) \div 2]
             ELSE [sc EXCEPT !.pc = "commit"]
    /\ UNCHANGED <<capVars, dragging, chatVars, branchPhase, pl, san, ex, hc, photo>>

\* measureAndPlaceCaption has returned: take its result, nudge, clamp
NudgePlaced ==
    /\ sc.pc = "measure"
    /\ pl.pc = "done"
    /\ sc' = [sc EXCEPT !.pc = "commit", !.x = NudgedX(sc.value, pl.ret),
                        !.y = NudgedY(sc.value, pl.ret), !.sizePct = pl.ret.sizePct]
    /\ UNCHANGED <<capVars, dragging, chatVars, branchPhase, pl, san, ex, hc, photo>>

\* const newCaption = {...}
NewCaption ==
    [text |-> IF sc.value.n > 0 THEN 1 ELSE DefaultCaption.text,
     x |-> sc.x, y |-> sc.y, sizePct |-> sc.sizePct]

\* setCaptions(prev => ...) with the nested history commit
CommitCaption ==
    /\ sc.pc = "commit"
    /\ Becomes(CommitState(CapState, captionIndex, SetCaptionNext(captions, NewCaption)))
    /\ sc' = [sc EXCEPT !.pc = "done", !.caption = <<NewCaption>>]
    /\ UNCHANGED <<dragging, chatVars, pl, san, ex, hc, photo>>

\* A move_caption action later in the same response: the handler still holds
\* the captionIndex of the fresh state.
MoveAfterSet ==
    /\ sc.pc = "done"
    /\ \E cs \in MoveResults(CapState, 0) : Becomes(cs)
    /\ UNCHANGED <<dragging, chatVars, pl, san, sc, ex, hc, photo>>

NextSet ==
    \/ SetBegin
    \/ SearchSize
    \/ SearchEnd
    \/ ApplyBest
    \/ NextPlace
    \/ NudgePlaced
    \/ CommitCaption
    \/ MoveAfterSet
    \/ PointerDown
    \/ PointerMove
    \/ PointerUp

SpecSet == InitSet /\ [][NextSet]_vars

(***************************************************************************)
(* Part 5: the image exports.  "save" is the Save Edited button, which     *)
(* draws the base image and every caption on a canvas and downloads it;    *)
(* "render" is renderEditorStateToBlob, which draws the rotated, flipped   *)
(* and filtered image.  The browser's answers (image load, 2d context,     *)
(* canvas.toBlob, canvas.toDataURL) are inputs.  A data URL is a sequence  *)
(* of characters, "d" standing for the header before the comma.            *)
(***************************************************************************)
Handlers == {"save", "render"}
ToBlobAnswers == {"blob", "null", "throws"}
DataUrls == {<<"d">>, <<"d", ",">>, <<"d", ",", "Q", "U", "J", "D">>}
ToDataUrlAnswers ==
    {[throws |-> TRUE, url |-> <<>>]} \cup {[throws |-> FALSE, url |-> u] : u \in DataUrls}

ExportInputs ==
    [handler : Handlers, src : BOOLEAN, load : BOOLEAN, dims : BOOLEAN, ctx : BOOLEAN,
     toBlob : ToBlobAnswers, toDataURL : ToDataUrlAnswers]

\* dataUrl.split(',')[1]: the characters between the first and the second comma,
\* <<>> when there is no comma (undefined) or nothing follows it ('').
CommaAt(s) == {i \in DOMAIN s : s[i] = ","}
FirstComma(s) == CHOOSE i \in CommaAt(s) : \A j \in CommaAt(s) : i <= j
Base64Data(s) ==
    IF CommaAt(s) = {} THEN <<>>
    ELSE LET a == FirstComma(s)
             rest == {i \in CommaAt(s) : i > a}
             b == IF rest = {} THEN Len(s) + 1
                  ELSE CHOOSE i \in rest : \A j \in rest : i <= j
         IN  SubSeq(s, a + 1, b - 1)

\* atob(base64Data).length for unpadded base64: three bytes for four characters
AtobLength(b64) == (Len(b64) * 3) \div 4

\* A canvas without pixels (naturalWidth or naturalHeight 0) encodes to nothing.
SaveToBlob(e) == IF e.dims THEN e.toBlob ELSE "null"

Done(e, kind, what) ==
    [e EXCEPT !.pc = "done", !.result = [kind |-> kind, what |-> what, size |-> 0]]
\* resolve(new Blob([array], { type: mime })), array of atob(base64Data).length bytes
Rebuilt(e, b64) ==
    [e EXCEPT !.pc = "done",
              !.result = [kind |-> "resolved", what |-> "bytes", size |-> AtobLength(b64)]]

InitExport ==
    /\ captions = <<>>
    /\ captionHistory = << <<>> >>
    /\ captionIndex = 0
    /\ dragging = FALSE
    /\ hcsIndex = <<>>
    /\ reqIndex = <<>>
    /\ branchPhase = 0
    /\ photo = 0
    /\ reqPhoto = <<>>
    /\ pl = [pc |-> "off"]
    /\ san = [pc |-> "off"]
    /\ sc = [pc |-> "off"]
    /\ hc = [pc |-> "off"]
    /\ \E i \in ExportInputs :
          ex = [pc |-> "start", in |-> i, result |-> [kind |-> "none", what |-> "", size |-> 0]]

exFrame == <<capVars, dragging, chatVars, branchPhase, pl, san, sc, hc, photo>>

\* save: if (!imgSrc) { alert('No image to save.'); return }; then img.src = imgSrc.
\* render: loadImageElement(sourceUrl).
ExportStart ==
    /\ ex.pc = "start"
    /\ ex' = IF ex.in.handler = "save" /\ ~ex.in.src
             THEN Done(ex, "alert", "No image to save.")
             ELSE [ex EXCEPT !.pc = "loading"]
    /\ UNCHANGED exFrame

\* img.onload / img.onerror
ExportLoaded ==
    /\ ex.pc = "loading"
    /\ ex' = IF ex.in.load THEN [ex EXCEPT !.pc = "canvas"]
             ELSE IF ex.in.handler = "save"
                  THEN Done(ex, "alert", "Failed to load image for saving.")
                  ELSE Done(ex, "rejected", "Failed to load image for editing.")
    /\ UNCHANGED exFrame

\* The canvas is created and drawn: render throws without dimensions, both
\* give up without a 2d context.
ExportDraw ==
    /\ ex.pc = "canvas"
    /\ ex' = IF ex.in.handler = "render" /\ ~ex.in.dims
             THEN Done(ex, "rejected", "Image dimensions are unavailable for editing.")
             ELSE IF ~ex.in.ctx
                  THEN IF ex.in.handler = "save"
                       THEN Done(ex, "alert", "Canvas not supported.")
                       ELSE Done(ex, "rejected", "Canvas rendering is not supported in this browser.")
                  ELSE [ex EXCEPT !.pc = "encode"]
    /\ UNCHANGED exFrame

\* save: canvas.toBlob(b => { if (!b) { alert('Failed to create image.'); return } ... a.click() });
\* an exception of toBlob leaves the async onload handler unhandled.
SaveEncode ==
    /\ ex.pc = "encode"
    /\ ex.in.handler = "save"
    /\ ex' = CASE SaveToBlob(ex.in) = "blob" -> Done(ex, "download", "blob")
               [] SaveToBlob(ex.in) = "null" -> Done(ex, "alert", "Failed to create image.")
               [] OTHER -> Done(ex, "unhandled", "toBlob")
    /\ UNCHANGED exFrame

\* render: canvas.toBlob(blob => handleBlob(blob)), catch (err) handleBlob(null, err);
\* handleBlob resolves with a blob and goes on to the data URL without one.
RenderEncode ==
    /\ ex.pc = "encode"
    /\ ex.in.handler = "render"
    /\ ex' = IF ex.in.toBlob = "blob" THEN Done(ex, "resolved", "blob")
             ELSE [ex EXCEPT !.pc = "fallback"]
    /\ UNCHANGED exFrame

\* The rest of handleBlob: canvas.toDataURL, split, atob, new Blob([array]).
RenderFallback ==
    /\ ex.pc = "fallback"
    /\ ex' = IF ex.in.toDataURL.throws
             THEN Done(ex, "rejected", IF ex.in.toBlob = "throws" THEN "toBlob" ELSE "toDataURL")
             ELSE IF Base64Data(ex.in.toDataURL.url) = <<>>
                  THEN Done(ex, "rejected",
                            IF ex.in.toBlob = "throws" THEN "toBlob"
                            ELSE "Failed to export edited image.")
                  ELSE Rebuilt(ex, Base64Data(ex.in.toDataURL.url))
    /\ UNCHANGED exFrame

NextExport ==
    \/ ExportStart
    \/ ExportLoaded
    \/ ExportDraw
    \/ SaveEncode
    \/ RenderEncode
    \/ RenderFallback

SpecExport == InitExport /\ [][NextExport]_vars

(***************************************************************************)
(* Part 6: the HEIC conversion chain of handleFileChange for a file that   *)
(* passed the type validation.  What a decoder does with the file is an    *)
(* input: it throws, or it returns a blob of some size (heic2any may also  *)
(* return an empty array).  A blob is written as its size; -1 stands for   *)
(* `undefined`.  Each await is one step.                                   *)
(***************************************************************************)
BlobSizes == {0, 7}
DecoderAnswers ==
    {[kind |-> "throws", size |-> 0]} \cup {[kind |-> "blob", size |-> n] : n \in BlobSizes}
\* heic2any resolves with a blob or an array of blobs; converted[0] of [] is undefined.
Heic2anyResults == DecoderAnswers \cup {[kind |-> "undefined", size |-> 0]}
\* ExifReader.load throws, or gives tags: the thumbnail fields read, in the
\* order of possibleThumbnails, each absent (<<>>) or holding data of some size.
ThumbFields == {<<>>} \cup {<<n>> : n \in BlobSizes}
ExifAnswers ==
    {[kind |-> "throws", fields |-> <<>>]}
    \cup {[kind |-> "tags", fields |-> <<a, b>>] : a \in ThumbFields, b \in ThumbFields}

HeicInputs ==
    [isHeic : BOOLEAN, heic2any : Heic2anyResults, libheif : DecoderAnswers, exif : ExifAnswers]

\* The message set by the last catch, as the pieces it is made of.
ConversionFailed ==
    <<"HEIC conversion failed", " completely. Please export as JPEG from Photos app and try again.">>

\* Faulty variant: any blob is taken, an empty one too.
UsableAnyBlob(r) == r.kind = "blob"
\* if (jpegBlob && jpegBlob.size > 0) previewBlob = jpegBlob; else throw
Usable(r) == r.kind = "blob" /\ r.size > 0

\* The loop over possibleThumbnails: the first field with data of size > 0.
ThumbHits(fields) == {i \in DOMAIN fields : fields[i] # <<>> /\ fields[i][1] > 0}
FirstThumb(fields) == CHOOSE i \in ThumbHits(fields) : \A j \in ThumbHits(fields) : i <= j
ThumbUsable(r) == r.kind = "tags" /\ ThumbHits(r.fields) # {}

InitHeic ==
    /\ captions = <<>>
    /\ captionHistory = << <<>> >>
    /\ captionIndex = 0
    /\ dragging = FALSE
    /\ hcsIndex = <<>>
    /\ reqIndex = <<>>
    /\ branchPhase = 0
    /\ photo = 0
    /\ reqPhoto = <<>>
    /\ pl = [pc |-> "off"]
    /\ san = [pc |-> "off"]
    /\ sc = [pc |-> "off"]
    /\ ex = [pc |-> "off"]
    /\ \E i \in HeicInputs :
          hc = [pc |-> "detect", in |-> i, tried |-> <<>>, preview |-> "none",
                previewSize |-> 0, conversionError |-> <<>>, imageError |-> <<>>,
                objectUrl |-> "none"]

hcFrame == <<capVars, dragging, chatVars, branchPhase, pl, san, sc, ex, photo>>

\* const isHeic = ...; if (isHeic) {...} else { previewBlob = file }
DetectHeic ==
    /\ hc.pc = "detect"
    /\ hc' = IF hc.in.isHeic THEN [hc EXCEPT !.pc = "heic2any"]
             ELSE [hc EXCEPT !.pc = "show", !.preview = "file"]
    /\ UNCHANGED hcFrame

\* await heic2any({ blob: file, ... })
TryHeic2any ==
    /\ hc.pc = "heic2any"
    /\ hc' = IF Usable(hc.in.heic2any)
             THEN [hc EXCEPT !.pc = "error", !.tried = Append(@, "heic2any"),
                             !.preview = "heic2any", !.previewSize = hc.in.heic2any.size]
             ELSE [hc EXCEPT !.pc = "libheif", !.tried = Append(@, "heic2any")]
    /\ UNCHANGED hcFrame

\* catch (heic2anyErr): await convertHeicToJpegBlob(file, 0.95)
TryLibheif ==
    /\ hc.pc = "libheif"
    /\ hc' = IF Usable(hc.in.libheif)
             THEN [hc EXCEPT !.pc = "error", !.tried = Append(@, "libheif"),
                             !.preview = "libheif", !.previewSize = hc.in.libheif.size]
             ELSE [hc EXCEPT !.pc = "thumbnail", !.tried = Append(@, "libheif")]
    /\ UNCHANGED hcFrame

\* catch (libheifErr): ExifReader.load and the thumbnail fields;
\* catch (thumbErr): conversionError = '...', previewBlob = file
TryThumbnail ==
    /\ hc.pc = "thumbnail"
    /\ hc' = IF ThumbUsable(hc.in.exif)
             THEN [hc EXCEPT !.pc = "error", !.tried = Append(@, "thumbnail"),
                             !.preview = "thumbnail",
                             !.previewSize = hc.in.exif.fields[FirstThumb(hc.in.exif.fields)][1]]
             ELSE [hc EXCEPT !.pc = "error", !.tried = Append(@, "thumbnail"),
                             !.preview = "file", !.conversionError = ConversionFailed]
    /\ UNCHANGED hcFrame

\* if (conversionError) setImageError(conversionError) else setImageError(null)
SetConversionError ==
    /\ hc.pc = "error"
    /\ hc' = [hc EXCEPT !.pc = "show", !.imageError = hc.conversionError]
    /\ UNCHANGED hcFrame

\* if (previewBlob) { setObjectUrl(url); ...; if (isHeic && previewBlob !== file) setImageError(null) }
ShowPreview ==
    /\ hc.pc = "show"
    /\ hc' = [hc EXCEPT !.pc = "done", !.objectUrl = hc.preview,
                        !.imageError = IF hc.in.isHeic /\ hc.preview # "file" THEN <<>> ELSE @]
    /\ UNCHANGED hcFrame

NextHeic ==
    \/ DetectHeic
    \/ TryHeic2any
    \/ TryLibheif
    \/ TryThumbnail
    \/ SetConversionError
    \/ ShowPreview

SpecHeic == InitHeic /\ [][NextHeic]_vars

(***************************************************************************)
(* Properties of the caption state machine.                                *)
(***************************************************************************)

\* C1: after any sequence of commits (chat actions, Edit Caption), Undo and
\* Redo, the live caption array equals the snapshot under the cursor.
C1_LiveEqualsSnapshot ==
    /\ captionIndex + 1 \in DOMAIN captionHistory
    /\ captions = captionHistory[captionIndex + 1]

\* A commit, an Undo and a second commit have happened and the cursor is
\* inside the history on a caption.
C1_Witness ==
    /\ Len(captionHistory) = 3
    /\ captionIndex = 1
    /\ captions # <<>>
    /\ captions = captionHistory[2]

\* A step of a committing handler that changed the history or the cursor.
CommitStep ==
    /\ EditCaption \/ ChatResponse
    /\ <<captionHistory, captionIndex>>' # <<captionHistory, captionIndex>>

\* C2: a commit at cursor i yields a history of length i+2 whose first i+1
\* snapshots are unchanged and whose last snapshot is the new caption array,
\* with the cursor at i+1, whatever happened while the request was in flight.
C2_CommitTruncatesAtCursor ==
    [][CommitStep =>
         /\ Len(captionHistory') = captionIndex + 2
         /\ SubSeq(captionHistory', 1, captionIndex + 1)
              = SubSeq(captionHistory, 1, captionIndex + 1)
         /\ captionHistory'[Len(captionHistory')] = captions'
         /\ captionIndex' = captionIndex + 1]_vars

\* C3: Undo at cursor 0 and Redo at the last index change nothing and their
\* controls are disabled exactly there; elsewhere Undo moves the cursor by -1
\* and Redo by +1 and the live array becomes the snapshot at the new cursor.
C3_UndoRedoSteps ==
    [][/\ UndoDisabled <=> captionIndex = 0
       /\ RedoDisabled <=> captionIndex = Len(captionHistory) - 1
       /\ UndoCaption =>
            IF captionIndex = 0
            THEN UNCHANGED capVars
            ELSE /\ captionIndex' = captionIndex - 1
                 /\ captionIndex' + 1 \in DOMAIN captionHistory
                 /\ captions' = captionHistory[captionIndex' + 1]
                 /\ UNCHANGED captionHistory
       /\ RedoCaption =>
            IF captionIndex = Len(captionHistory) - 1
            THEN UNCHANGED capVars
            ELSE /\ captionIndex' = captionIndex + 1
                 /\ captionIndex' + 1 \in DOMAIN captionHistory
                 /\ captions' = captionHistory[captionIndex' + 1]
                 /\ UNCHANGED captionHistory]_vars

\* The cursor stands strictly between the ends of a history of three
\* snapshots, on a caption: an Undo has acted and Redo is possible.
C3_Witness ==
    /\ Len(captionHistory) = 3
    /\ captionIndex = 1
    /\ captions = captionHistory[2]
    /\ captionHistory[3] # captionHistory[2]
    /\ branchPhase = 4

\* C4: from a fresh history, after a commit, an Undo and a second commit the
\* history is the empty snapshot followed by the second commit's array, with
\* the cursor on it: the first commit's snapshot is gone.
C4_BranchDiscard ==
    branchPhase = 3 =>
        /\ captionHistory = << <<>>, captions >>
        /\ captionIndex = 1

\* C5: the history is never empty and the cursor is a valid index into it.
C5_CursorValid ==
    /\ Len(captionHistory) >= 1
    /\ 0 <= captionIndex
    /\ captionIndex < Len(captionHistory)

\* A request is in flight whose handler captured cursor 0, and two commits
\* have moved the cursor to 2 since.
C5_Witness ==
    /\ reqIndex = <<0>>
    /\ captionIndex = 2
    /\ Len(captionHistory) = 3

\* C6: pointer moves leave the history and the cursor alone, and the release
\* keeps the history up to the cursor and appends exactly one snapshot.
C6_DragAddsOneEntry ==
    [][/\ PointerMove => UNCHANGED <<captionHistory, captionIndex>>
       /\ (dragging /\ PointerUp) =>
            /\ Len(captionHistory') = captionIndex + 2
            /\ SubSeq(captionHistory', 1, captionIndex + 1)
                 = SubSeq(captionHistory, 1, captionIndex + 1)]_vars

\* C7: the release commits the dragged live array after the current cursor,
\* so that right after it the live array equals the snapshot under the cursor.
C7_ReleaseCommitsLive ==
    [][(dragging /\ PointerUp) =>
         /\ captionIndex' + 1 \in DOMAIN captionHistory'
         /\ captionHistory'[captionIndex' + 1] = captions
         /\ captions' = captionHistory'[captionIndex' + 1]]_vars

(***************************************************************************)
(* Properties of measureAndPlaceCaption.                                   *)
(***************************************************************************)
Returned == pl.pc = "done"

\* C8: on every return path the returned x and y lie between marginPct/100
\* and 1 - marginPct/100.
C8_ClampInvariant ==
    Returned =>
        /\ pl.req.marginPct * StageW(pl.req) <= pl.ret.x
        /\ pl.ret.x <= (1000 - pl.req.marginPct) * StageW(pl.req)
        /\ pl.req.marginPct * StageH(pl.req) <= pl.ret.y
        /\ pl.ret.y <= (1000 - pl.req.marginPct) * StageH(pl.req)

\* C9: the fit loop makes at most 12 turns and the call always returns.
C9_Termination ==
    /\ [](pl.i <= MaxIter)
    /\ <>Returned

\* The loop ran all its turns without a fit and the call returned.
C9_Witness ==
    /\ Returned
    /\ pl.i = MaxIter
    /\ pl.ret.path = "fallback"

\* The text box of a returned placement, from its anchor point (milli-pixels).
RetWidth == TextWidth(pl.req.n, FontPx(pl.ret.sizePct, MaxSide(pl.req)))
RetHeight == TextHeight(FontPx(pl.ret.sizePct, MaxSide(pl.req)))
RetLeft == pl.ret.x - AnchorOx(RetWidth, pl.ret.anchor)
RetTop == pl.ret.y - AnchorOy(RetHeight, pl.ret.anchor)

\* "Hello" at (0.5, 0.95), anchor bc, 10%, margin 1.5% on a 1000x800 stage.
HelloRequest ==
    [n |-> 5, preferredX |-> 500, preferredY |-> 950, preferredAnchor |-> "bc",
     preferredSizePct |-> 10 * SizeUnit, marginPct |-> 15, stage |-> <<1000, 800>>,
     ctx |-> TRUE]

\* C10: when the text box fits at the size in use, the returned placement's
\* box lies between the margins on all four sides; the "Hello" request
\* returns y <= 0.985 and x in [0.015, 0.985].
C10_BoxInsideMargins ==
    /\ (Returned /\ pl.ret.path = "fit") =>
          /\ RetLeft >= MarginPx(pl.req)
          /\ RetLeft + RetWidth <= StageW(pl.req) * 1000 - MarginPx(pl.req)
          /\ RetTop >= MarginPx(pl.req)
          /\ RetTop + RetHeight <= StageH(pl.req) * 1000 - MarginPx(pl.req)
    /\ (Returned /\ pl.req = HelloRequest) =>
          /\ pl.ret.path = "fit"
          /\ pl.ret.y <= 985 * 800
          /\ 15 * 1000 <= pl.ret.x
          /\ pl.ret.x <= 985 * 1000

\* A bottom-anchored caption asked for at the bottom edge was returned
\* shifted up to fit.
C10_Witness ==
    /\ Returned
    /\ pl.ret.path = "fit"
    /\ pl.req.preferredY = 1000
    /\ pl.req.preferredAnchor = "bc"
    /\ pl.ret.y < 1000 * StageH(pl.req)

(***************************************************************************)
(* Properties of sanitizeCaptionHtml.  The sanitizer's output is handed to *)
(* the browser as innerHTML: a tag starts at "<" followed by a letter, or  *)
(* by "/" and a letter, its name runs up to the first white space, "/" or  *)
(* ">", and what stands between the name and the closing ">" is read as    *)
(* attributes.                                                             *)
(***************************************************************************)
TagStarts(s) ==
    { i \in 1..Len(s) :
        /\ s[i] = "<"
        /\ IsWord(At(s, i + 1)) \/ (At(s, i + 1) = "/" /\ IsWord(At(s, i + 2)))
        /\ FirstGt(s, i + 1) # 0 }

TagNameStart(s, i) == IF At(s, i + 1) = "/" THEN i + 2 ELSE i + 1

RECURSIVE TagNameEnd(_, _)
TagNameEnd(s, j) ==
    IF At(s, j) \in {" ", "/", ">", ""} THEN j - 1 ELSE TagNameEnd(s, j + 1)

TagName(s, i) == SubSeq(s, TagNameStart(s, i), TagNameEnd(s, TagNameStart(s, i)))

HasAttributes(s, i) ==
    \E k \in (TagNameEnd(s, TagNameStart(s, i)) + 1)..(FirstGt(s, i + 1) - 1) :
        s[k] \notin {" ", "/"}

\* C11: sanitizing the sanitizer's output gives that output again: the text
\* stored in a caption and the markup rendered from it are the same string.
C11_Idempotent == san.pc = "rendered" => san.html = san.out

\* C12: the sanitizer's output holds no tag whose name is not on the white list.
C12_OnlyWhitelistedTags ==
    san.pc \in {"stored", "rendered"} =>
        \A i \in TagStarts(san.out) : TagName(san.out, i) \in WhiteNames

\* C13: a white-listed tag in the sanitizer's output carries no attributes.
C13_NoAttributes ==
    san.pc \in {"stored", "rendered"} =>
        \A i \in TagStarts(san.out) :
            TagName(san.out, i) \in WhiteNames => ~HasAttributes(san.out, i)

(***************************************************************************)
(* Properties of the set_caption action (part 4).                          *)
(***************************************************************************)
SizesSearched == MinPct2..MaxPct2

\* C14: findBestCaptionPlacement returns null exactly when no size and grid
\* position gets past the margin test.
C14_NullIffNoCandidate ==
    sc.pc \in {"found", "commit", "done"} /\ sc.path = "search" =>
        (sc.best = <<>> <=> \A size2 \in SizesSearched : Passing(sc.value, size2) = {})

\* The search has returned a placement found at a size below maxPct.
C14_Witness ==
    /\ sc.pc = "found"
    /\ sc.best # <<>>
    /\ sc.best[1].size2 < MaxPct2

\* The box of the committed caption, measured as the grid search measures it,
\* lies inside the margins.
CommittedInsideMargins ==
    MarginOk(sc.caption[1].x, sc.caption[1].y,
             TextWidth(sc.value.n,
                 FontPx(sc.caption[1].sizePct, Max(sc.value.stage[1], sc.value.stage[2]))),
             TextHeight(FontPx(sc.caption[1].sizePct,
                 Max(sc.value.stage[1], sc.value.stage[2]))),
             sc.value.stage[1], sc.value.stage[2])

\* C15: a set_caption without coordinates commits only a caption whose
\* position and size were checked against the margins.
C15_SearchCommitChecked ==
    sc.pc = "done" /\ sc.path = "search" => CommittedInsideMargins

\* The text box fits inside the margins at the supplied position and size:
\* the first turn of the fit loop fits and its clamps move nothing.
FitsAsSupplied(v) ==
    LET r == MeasureRequest(v)
        tw == TextWidth(r.n, FontPx(r.preferredSizePct, MaxSide(r)))
        th == TextHeight(FontPx(r.preferredSizePct, MaxSide(r)))
    IN  /\ Fits(r, tw, th)
        /\ PlacedLeft(r.preferredX, StageW(r), AnchorOx(tw, r.preferredAnchor), tw, MarginPx(r))
             = r.preferredX * StageW(r) - AnchorOx(tw, r.preferredAnchor)
        /\ PlacedLeft(r.preferredY, StageH(r), AnchorOy(th, r.preferredAnchor), th, MarginPx(r))
             = r.preferredY * StageH(r) - AnchorOy(th, r.preferredAnchor)

\* C16: a set_caption with coordinates at which the text box fits commits the
\* caption at those coordinates.
C16_SuppliedPositionKept ==
    sc.pc = "done" /\ sc.path = "measure" /\ FitsAsSupplied(sc.value) =>
        /\ sc.caption[1].x = FirstX(sc.value)
        /\ sc.caption[1].y = FirstY(sc.value)

\* C17: each set_caption action adds a caption to the live array and keeps the
\* captions already there.
C17_SetCaptionAdds ==
    \A c \in Caption :
        /\ Len(SetCaptionNext(captions, c)) = Len(captions) + 1
        /\ SubSeq(SetCaptionNext(captions, c), 1, Len(captions)) = captions

\* C18: loading a photo leaves live captions = [], history = [[]] and cursor 0,
\* with Undo and Redo disabled: nothing of the previous photo can be reached.
C18_LoadResets ==
    [][LoadPhoto =>
         /\ captions' = <<>>
         /\ captionHistory' = << <<>> >>
         /\ captionIndex' = 0
         /\ UndoDisabled'
         /\ RedoDisabled']_vars

\* A photo was loaded over a history that held commits: the chat request still
\* in flight was sent at a cursor above 0, and the caption state is empty.
C18_Witness ==
    /\ captions = <<>>
    /\ captionHistory = << <<>> >>
    /\ captionIndex = 0
    /\ reqIndex # <<>>
    /\ reqIndex[1] > 0

AllSnapshots == {captions} \cup {captionHistory[i] : i \in DOMAIN captionHistory}

\* C19: every caption, live or in a history snapshot, has sizePct > 0.
C19_SizePositive ==
    \A snap \in AllSnapshots : \A i \in DOMAIN snap : snap[i].sizePct > 0

\* C20: every live caption has x and y within [0.01, 0.99].
C20_LiveInsideMargins ==
    \A i \in DOMAIN captions :
        /\ DefaultMargin <= captions[i].x /\ captions[i].x <= 1000 - DefaultMargin
        /\ DefaultMargin <= captions[i].y /\ captions[i].y <= 1000 - DefaultMargin

\* A caption placed by the grid search was then dragged or moved to the margin.
C20_Witness ==
    /\ sc.pc = "done"
    /\ sc.path = "search"
    /\ sc.best # <<>>
    /\ captions # <<>>
    /\ captions[1].x = DefaultMargin
    /\ captions[1].y = 1000 - DefaultMargin

\* C23: while a caption is being dragged (after pointer-down, before pointer-up)
\* only the drag writes the caption state: an assistant response, Undo, Redo or
\* Edit Caption in that interval leaves the live captions, the history and the
\* cursor alone.
C23_DragIsOnlyWriter ==
    [][dragging /\ (ChatResponse \/ UndoCaption \/ RedoCaption \/ EditCaption)
         => UNCHANGED capVars]_vars

\* The caption states after one action of a response that commits, applied to
\* cs by a handler whose closure holds cursor ci.
CommittingResults(cs, ci) ==
    {r \in ActionResults([cs EXCEPT !.committed = FALSE], ci) : r.committed}

\* C24: two committing caption actions of one response, applied to a shown
\* caption with the cursor at the end of the history, leave the history two snapshots longer: the array
\* after the first action, then the array after the second.
C24_HistoryGrowsPerAction ==
    captions # <<>> /\ captionIndex = Len(captionHistory) - 1 =>
        \A c1 \in CommittingResults(CapState, captionIndex) :
            \A c2 \in CommittingResults(c1, captionIndex) :
                /\ Len(c2.history) = Len(captionHistory) + 2
                /\ c2.history = captionHistory \o <<c1.captions, c2.captions>>

\* r differs from the caption state cs at most in the last caption, and there
\* at most in the fields named by `may`; with no caption r is cs.
OnlyLastChanged(cs, r, may) ==
    IF cs.captions = <<>> THEN r = cs
    ELSE /\ Len(r.captions) = Len(cs.captions)
         /\ \A i \in 1..(Len(cs.captions) - 1) : r.captions[i] = cs.captions[i]
         /\ \A f \in DOMAIN cs.captions[Len(cs.captions)] \ may :
               r.captions[Len(cs.captions)][f] = cs.captions[Len(cs.captions)][f]

\* C25: move_caption changes only x and y of the last caption and style_caption
\* only its sizePct; the array length, the other captions and the text stay;
\* with no caption both change nothing and add no history entry.
C25_MoveStyleFrame ==
    /\ \A r \in MoveResults(CapState, captionIndex) :
          OnlyLastChanged(CapState, r, {"x", "y"})
    /\ \A r \in StyleResults(CapState, captionIndex) :
          OnlyLastChanged(CapState, r, {"sizePct"})

\* A caption was moved by an action: the snapshot before the cursor and the
\* live array hold the same text at different positions.
C25_Witness ==
    /\ captionIndex = 2
    /\ Len(captionHistory[2]) = 1
    /\ Len(captions) = 1
    /\ captions[1].text = captionHistory[2][1].text
    /\ captions[1].x # captionHistory[2][1].x
    /\ captions = captionHistory[3]

\* The sizes whose candidates the search evaluated.
ScannedSizes == {sc.scanned[i] : i \in DOMAIN sc.scanned}

\* findBestCaptionPlacement has just returned a placement.
SearchReturned == sc.pc = "found" /\ sc.path = "search" /\ sc.best # <<>>

\* The returned placement is an evaluated candidate (a turn of the inner loops
\* that got past the margin test, at a size scanned) of least cost, of a size
\* between minPct and maxPct.
ReturnsLeastCost ==
    /\ sc.best[1].size2 \in ScannedSizes
    /\ \E k \in Passing(sc.value, sc.best[1].size2) :
          /\ CandCost(k, sc.value, sc.best[1].size2) = sc.cost
          /\ CandX(k) = sc.best[1].x
          /\ CandY(k) = sc.best[1].y
          /\ CandAnchor(k) = sc.best[1].anchor
    /\ \A s \in ScannedSizes : \A k \in Passing(sc.value, s) :
          sc.cost <= CandCost(k, sc.value, s)
    /\ MinPct2 <= sc.best[1].size2 /\ sc.best[1].size2 <= MaxPct2

\* C26 as stated: the search returns an evaluated candidate of least cost with
\* minPct <= sizePct <= maxPct, and after a candidate of cost < 0.08 no other
\* candidate is evaluated, of the same size or of a smaller one.
C26_StopsAtFirstClear ==
    SearchReturned =>
        /\ ReturnsLeastCost
        /\ \A s \in ScannedSizes :
              LET pass == Passing(sc.value, s)
              IN  \A k \in pass : CandCost(k, sc.value, s) < ClearCost =>
                      /\ \A t \in ScannedSizes : t >= s
                      /\ \A j \in pass : j <= k

\* C26, amended: the search returns an evaluated candidate of least cost with
\* minPct <= sizePct <= maxPct, and after a candidate of cost < 0.08 no
\* candidate of a smaller size is evaluated (those of its own size all are).
C26_StopsAfterClearSize ==
    SearchReturned =>
        /\ ReturnsLeastCost
        /\ \A s \in ScannedSizes :
              LET pass == Passing(sc.value, s)
              IN  \A k \in pass : CandCost(k, sc.value, s) < ClearCost =>
                      \A t \in ScannedSizes : t >= s

\* The search ended early: the placement returned costs less than 0.08 and a
\* smaller size was left unscanned.
C26_Witness ==
    /\ SearchReturned
    /\ sc.cost < ClearCost
    /\ sc.best[1].size2 > MinPct2
    /\ sc.scanned[Len(sc.scanned)] = sc.best[1].size2

\* The box the overlay draws for text of width tw and height th at (x, y)
\* under anchor a (left: x, x - 50% or x - 100% of the width; top likewise)
\* lies within the margins of a W x H stage.
AnchoredBoxInside(x, y, a, tw, th, W, H) ==
    /\ x * W - AnchorOx(tw, a) >= GridMargin * W
    /\ x * W - AnchorOx(tw, a) + tw <= (1000 - GridMargin) * W
    /\ y * H - AnchorOy(th, a) >= GridMargin * H
    /\ y * H - AnchorOy(th, a) + th <= (1000 - GridMargin) * H

\* C27: the box of the text drawn at the returned (x, y) under the returned
\* anchor lies within the margins.
C27_AnchoredBoxInside ==
    SearchReturned =>
        AnchoredBoxInside(sc.best[1].x, sc.best[1].y, sc.best[1].anchor,
                          BoxW(sc.value, sc.best[1].size2), BoxH(sc.value, sc.best[1].size2),
                          sc.value.stage[1], sc.value.stage[2])

\* measureAndPlaceCaption returned after a loop in which no turn fitted, with
\* the preferred position clamped by clampNormalized and the preferred anchor.
FellBack ==
    /\ pl.pc = "done"
    /\ pl.ret.path = "fallback"
FallbackKeepsPlace ==
    /\ pl.ret.x = clampNormalized(pl.req.preferredX, DefaultMargin) * StageW(pl.req)
    /\ pl.ret.y = clampNormalized(pl.req.preferredY, DefaultMargin) * StageH(pl.req)
    /\ pl.ret.anchor = pl.req.preferredAnchor

EncoderGaveNothing ==
    /\ ex.pc = "done"
    /\ ex.in.src /\ ex.in.load /\ ex.in.dims /\ ex.in.ctx
    /\ ex.in.toBlob = "null"
    /\ ~ex.in.toDataURL.throws
    /\ Base64Data(ex.in.toDataURL.url) # <<>>

\* C21: when canvas.toBlob gives no data while the captioned image is saved,
\* the image bytes are rebuilt from the data URL and the download still happens.
C21_SaveFallsBack ==
    EncoderGaveNothing /\ ex.in.handler = "save" => ex.result.kind = "download"

(***************************************************************************)
(* Properties of the HEIC conversion chain (part 6).                       *)
(***************************************************************************)
StageOrder == <<"heic2any", "libheif", "thumbnail">>

\* Stage k gave a blob with bytes in it.
StageYields(k) ==
    CASE k = 1 -> hc.in.heic2any.kind = "blob" /\ hc.in.heic2any.size > 0
      [] k = 2 -> hc.in.libheif.kind = "blob" /\ hc.in.libheif.size > 0
      [] OTHER -> /\ hc.in.exif.kind = "tags"
                  /\ \E i \in DOMAIN hc.in.exif.fields :
                        hc.in.exif.fields[i] # <<>> /\ hc.in.exif.fields[i][1] > 0

Contains(msg, piece) == \E i \in DOMAIN msg : msg[i] = piece

\* C22: for a HEIC file the decoders run in the order heic2any, libheif, EXIF
\* thumbnail, a later one only when every earlier one threw or gave nothing;
\* the first that yields a non-empty blob is the preview and no error is shown;
\* when all three fail the error says 'HEIC conversion failed' and the original
\* file is the preview.
C22_HeicChain ==
    hc.pc = "done" /\ hc.in.isHeic =>
        /\ hc.tried = SubSeq(StageOrder, 1, Len(hc.tried))
        /\ \A k \in 1..3 : k \in DOMAIN hc.tried <=> \A j \in 1..(k - 1) : ~StageYields(j)
        /\ \A k \in 1..3 :
              StageYields(k) /\ (\A j \in 1..(k - 1) : ~StageYields(j)) =>
                  /\ hc.objectUrl = StageOrder[k]
                  /\ hc.previewSize > 0
                  /\ hc.imageError = <<>>
        /\ (\A k \in 1..3 : ~StageYields(k)) =>
              /\ Contains(hc.imageError, "HEIC conversion failed")
              /\ hc.objectUrl = "file"

\* heic2any gave an empty blob, libheif threw, and the second thumbnail field
\* supplied the preview.
C22_Witness ==
    /\ hc.pc = "done"
    /\ hc.in.heic2any = [kind |-> "blob", size |-> 0]
    /\ hc.in.libheif.kind = "throws"
    /\ hc.tried = StageOrder
    /\ hc.objectUrl = "thumbnail"
    /\ hc.in.exif.fields[1] = <<0>>

(***************************************************************************)
(* Properties of photo loads and the chat (part 1).                        *)
(***************************************************************************)
\* The response that arrives belongs to a request issued for another working
\* image than the one shown now.
LateResponse == ChatResponse /\ reqPhoto # <<>> /\ reqPhoto[1] # photo

\* C29: a response whose request was issued before the photo shown now was
\* loaded adds or changes no caption and no history entry.
C29_LateResponseIgnored == [][LateResponse => UNCHANGED capVars]_vars

\* C30: choosing a file that the type validation rejects leaves the live
\* captions, the history and the cursor as they were.
C30_RejectedFileKeepsCaptions == [][RejectFile => UNCHANGED capVars]_vars

====
